---------------------------- MODULE Spec2Model ----------------------------
(***************************************************************************)
(* Time-lapse recorder: app.py (recording loop and assembler),             *)
(* migrate_frames.py (migration sweep) and start.py (service start-up).    *)
(*                                                                         *)
(* The disk (staging directory, legacy frame directory, artifacts)        *)
(* outlives a process; everything else is process state that a new launch *)
(* resets.  Time is a logical clock: it advances by one at every capture  *)
(* attempt, so the order of timestamps is the order of captures.          *)
(***************************************************************************)
EXTENDS Integers, Sequences, FiniteSets, TLC

(***************************************************************************)
(* Bounds of the model.                                                    *)
(***************************************************************************)
MaxTime == 3        \* capture attempts over all runs (values of the clock)
MaxRuns == 2        \* launches of the program over the life of the disk
MaxLegacy == 2      \* legacy frames on the disk at the start
MaxInterval == 3700 \* capture intervals of the threshold computation, in seconds
MaxHours == 2       \* durations of the threshold computation, in hours
MaxSweepFiles == 3  \* legacy frames of a migration sweep on its own

(***************************************************************************)
(* Program constants.                                                      *)
(***************************************************************************)
SecondsPerHour == 3600      \* app.py:35
SeqWidth == 6               \* app.py:190, {frame_count:06d}
DefaultCycleTime == "60"    \* app.py:28
DefaultDurationHours == "24"  \* app.py:31
DefaultKeepTempFrames == "false"  \* app.py:32
DefaultAutoMigrate == "true"      \* start.py:23
DefaultDeleteOldFrames == "true"  \* start.py:24
DefaultSkipConfirm == "true"      \* start.py:95
DefaultDeleteFramesAfter == "false"   \* migrate_frames.py:27
DefaultMigFramesPerVideo == "1440"    \* migrate_frames.py:28
HoursPerGroup == 24         \* migrate_frames.py:217
SIGTERM == 15               \* app.py:242, signal.SIGTERM

(***************************************************************************)
(* The environment: keys map to strings, UNSET when the key is absent.    *)
(* A key the process has not read yet is UNREAD; its value is drawn when  *)
(* the module that reads it is imported (each key is read once).          *)
(***************************************************************************)
UNSET == "<unset>"
UNREAD == "<unread>"

AppKeys == {"CYCLE_TIME", "VIDEO_DURATION_HOURS", "KEEP_TEMP_FRAMES"}
StartKeys == {"AUTO_MIGRATE", "DELETE_OLD_FRAMES", "SKIP_MIGRATION_CONFIRM"}
MigrateKeys == {"DELETE_FRAMES_AFTER", "FRAMES_PER_VIDEO"}
EnvKeys == AppKeys \cup StartKeys \cup MigrateKeys

\* the values of CYCLE_TIME and VIDEO_DURATION_HOURS a launch may find
TimingEnv ==
  { <<UNSET, UNSET>>, <<"3600", "1">>, <<"1800", "1">>, <<"7200", "1">>,
    <<"0", "1">>, <<"3600", "0">>, <<"-3600", "1">> }
FlagEnv == {UNSET, "false", "TRUE"}
KeepEnv == {UNSET, "TRUE"}
\* the values of FRAMES_PER_VIDEO the migration may find
MigFramesEnv == {UNSET, "0", "1", "2"}

\* os.getenv(key, default)
Getenv(e, key, default) == IF e[key] = UNSET THEN default ELSE e[key]

\* int(s) for the decimal strings of the model
IntOf ==
  ("60" :> 60) @@ ("24" :> 24) @@ ("0" :> 0) @@ ("1" :> 1) @@ ("2" :> 2) @@
  ("1440" :> 1440) @@ ("1800" :> 1800) @@ ("3600" :> 3600) @@
  ("7200" :> 7200) @@ ("-3600" :> -3600)

\* str.lower() on the flag strings of the model
Lower(s) == IF s = "TRUE" THEN "true" ELSE s

\* os.getenv(key, default).lower() == 'true'
FlagOf(e, key, default) == Lower(Getenv(e, key, default)) = "true"

Abs(n) == IF n < 0 THEN -n ELSE n

\* a division that rounds to the nearest integer instead
RoundDiv(a, b) ==
  LET q == (2 * Abs(a) + Abs(b)) \div (2 * Abs(b))
  IN  IF (a < 0) = (b < 0) THEN q ELSE -q

\* int(a / b), b # 0: true division, then truncation toward zero
TruncDiv(a, b) ==
  LET q == Abs(a) \div Abs(b)
  IN  IF (a < 0) = (b < 0) THEN q ELSE -q

\* app.py:35
FramesPerVideoOf(hours, cycle) == TruncDiv(hours * SecondsPerHour, cycle)

(***************************************************************************)
(* Frame files of the staging directory.  A frame is named                *)
(* frame_{seq:06d}_{timestamp}.jpg; sorted() orders the names as strings. *)
(***************************************************************************)
RECURSIVE Digits(_)
Digits(n) == IF n < 10 THEN <<n>> ELSE Append(Digits(n \div 10), n % 10)

\* {n:06d}: at least SeqWidth digits, zero padded, followed by '_' (which
\* sorts after every digit; it is coded 10)
Pad(n) ==
  LET d == Digits(n)
      z == [i \in 1..(IF Len(d) < SeqWidth THEN SeqWidth - Len(d) ELSE 0) |-> 0]
  IN  z \o d \o <<10>>

RECURSIVE LexLess(_, _)
LexLess(s, t) ==
  IF s = <<>> THEN t # <<>>
  ELSE IF t = <<>> THEN FALSE
  ELSE IF Head(s) # Head(t) THEN Head(s) < Head(t)
  ELSE LexLess(Tail(s), Tail(t))

\* the timestamp part has a fixed width, so it compares as a number
NameLess(f, g) ==
  \/ LexLess(Pad(f.seq), Pad(g.seq))
  \/ Pad(f.seq) = Pad(g.seq) /\ f.ts < g.ts

RECURSIVE SortedFrames(_)
SortedFrames(S) ==
  IF S = {} THEN <<>>
  ELSE LET m == CHOOSE f \in S : \A g \in S \ {f} : NameLess(f, g)
       IN  <<m>> \o SortedFrames(S \ {m})

Range(s) == {s[i] : i \in 1..Len(s)}

NoFrame == [seq |-> -1, ts |-> -1]

\* app.py:110-118: the lines of frames_list.txt
PlaylistOf(files) ==
  LET n == Len(files)
  IN  [i \in 1..(IF n = 0 THEN 0 ELSE 2 * n + 1) |->
         IF i = 2 * n + 1 THEN [kind |-> "file", frame |-> files[n]]
         ELSE IF i % 2 = 1 THEN [kind |-> "file", frame |-> files[(i + 1) \div 2]]
         ELSE [kind |-> "duration", frame |-> NoFrame]]

(***************************************************************************)
(* Legacy frame files (migrate_frames.py).  A file carries the timestamp  *)
(* get_frame_timestamp parses from its name (NoTs when there is none),    *)
(* its modification time, and whether it is a PNG.  Times are in seconds. *)
(***************************************************************************)
NoTs == -1
NoTime == -1

LegacyUniverse ==
  { [name |-> "screenshot_a.png", prefix |-> "screenshot", ts |-> 0, mtime |-> 10],
    [name |-> "frame_c.jpg", prefix |-> "frame", ts |-> NoTs, mtime |-> 30] }

\* migrate_frames.py:30-40
get_frame_timestamp(f) == f.ts

\* start.py:27-41: the files the start-up scan finds
check_for_old_frames(dir) == {f \in dir : f.prefix \in {"screenshot", "frame"}}

\* migrate_frames.py:49: the sort key is the timestamp (a datetime) or, when
\* there is none, the modification time (a float); comparing the two raises
\* TypeError
SortKeyError(S) ==
  \E f, g \in S : get_frame_timestamp(f) = NoTs /\ get_frame_timestamp(g) # NoTs

SortKey(f) == IF get_frame_timestamp(f) # NoTs THEN get_frame_timestamp(f) ELSE f.mtime

\* the orders sorted() may return: files with equal keys keep the order of
\* list(set(...)), which is arbitrary (migrate_frames.py:206)
SortOrders(S) ==
  {s \in [1..Cardinality(S) -> S] :
     /\ \A i, j \in 1..Cardinality(S) : i # j => s[i] # s[j]
     /\ \A i, j \in 1..Cardinality(S) : i < j => SortKey(s[i]) <= SortKey(s[j])}

\* migrate_frames.py:50-79: the grouping loop and the final group
RECURSIVE GroupLoop(_, _, _, _, _, _)
GroupLoop(files, groups, cur, start, hours, limit) ==
  IF files = <<>>
  THEN IF cur # <<>> THEN Append(groups, [start |-> start, frames |-> cur]) ELSE groups
  ELSE LET f == Head(files)
           t == get_frame_timestamp(f)
       IN  IF t # NoTs
           THEN IF start = NoTime
                THEN GroupLoop(Tail(files), groups, <<f>>, t, hours, limit)
                ELSE IF (t - start) >= hours * SecondsPerHour \/ Len(cur) >= limit
                     THEN GroupLoop(Tail(files),
                                    Append(groups, [start |-> start, frames |-> cur]),
                                    <<f>>, t, hours, limit)
                     ELSE GroupLoop(Tail(files), groups, Append(cur, f), start, hours, limit)
           ELSE LET st == IF cur = <<>> THEN f.mtime ELSE start
                    c == Append(cur, f)
                IN  IF Len(c) >= limit
                    THEN GroupLoop(Tail(files),
                                   Append(groups, [start |-> st, frames |-> c]),
                                   <<>>, NoTime, hours, limit)
                    ELSE GroupLoop(Tail(files), groups, c, st, hours, limit)

\* a grouping whose time ceiling is one hour too long
GroupsOfLongerSpan(files, hours_per_group, limit) ==
  GroupLoop(files, <<>>, <<>>, NoTime, hours_per_group + 1, limit)

\* migrate_frames.py:43-81, applied to the sorted list
group_frames_by_time(files, hours_per_group, limit) ==
  GroupLoop(files, <<>>, <<>>, NoTime, hours_per_group, limit)

VARIABLES
  pc,                  \* where the process is; "off" when there is none
  runs,                \* launches so far
  now,                 \* the clock
  env,                 \* os.environ of the process
  staging,             \* frame files in {OUTPUT_DIR}/temp_frames
  artifacts,           \* video files written with exit status 0
  should_stop,         \* app.py:39
  exit_code,           \* exit status of the last process, -1 while none
  CYCLE_TIME, VIDEO_DURATION_HOURS, KEEP_TEMP_FRAMES, FRAMES_PER_VIDEO,
  frame_count, video_start_time, frame_filename,
  frame_files,         \* create_video_from_frames: the sorted glob
  frames_list,         \* the lines of frames_list.txt as last written
  del_idx,             \* position of the cleanup loop in frame_files
  batch,               \* frames captured since the last successful flush
  iter,                \* what the current loop iteration has done
  removed,             \* files unlinked by the last cleanup
  unlink_failed,       \* files whose unlink raised in the last cleanup
  final_flush,         \* result of the final flush (app.py:229-234)
  legacy,              \* legacy frame files in FRAMES_DIR (= OUTPUT_DIR)
  AUTO_MIGRATE, DELETE_OLD_FRAMES,              \* start.py:23-24
  DELETE_FRAMES_AFTER, MIG_FRAMES_PER_VIDEO,    \* migrate_frames.py:27-28
  frame_groups, group_idx, success_count, failed_count

vars == <<pc, runs, now, env, staging, artifacts, should_stop, exit_code,
          CYCLE_TIME, VIDEO_DURATION_HOURS, KEEP_TEMP_FRAMES, FRAMES_PER_VIDEO,
          frame_count, video_start_time, frame_filename, frame_files,
          frames_list, del_idx, batch, iter, removed, unlink_failed,
          final_flush, legacy, AUTO_MIGRATE, DELETE_OLD_FRAMES,
          DELETE_FRAMES_AFTER, MIG_FRAMES_PER_VIDEO, frame_groups, group_idx,
          success_count, failed_count>>

diskVars == <<staging, artifacts>>
\* start-up and migration: the recording loop never touches them
startVars == <<AUTO_MIGRATE, DELETE_OLD_FRAMES, DELETE_FRAMES_AFTER,
               MIG_FRAMES_PER_VIDEO, frame_groups, group_idx>>
countVars == <<success_count, failed_count>>
svcVars == <<legacy, startVars, countVars>>
recVars == <<video_start_time, frame_filename, frame_files, frames_list, del_idx,
             batch, iter, removed, unlink_failed>>
cfgVars == <<env, CYCLE_TIME, VIDEO_DURATION_HOURS, KEEP_TEMP_FRAMES, FRAMES_PER_VIDEO>>
asmVars == <<frame_files, frames_list, del_idx, removed, unlink_failed>>
\* what stays of a process once it has ended
endVars == <<should_stop, exit_code, final_flush>>

NoIter == [captured |-> FALSE, reached |-> FALSE, assembled |-> "none"]

LoopPCs == {"loop", "capturing", "assembling", "cleanup", "sleeping", "backoff"}

\* start.py and migrate_frames.py have not run, or nothing reads their
\* variables any more
FreshStartup ==
  /\ AUTO_MIGRATE' = FALSE
  /\ DELETE_OLD_FRAMES' = FALSE
  /\ DELETE_FRAMES_AFTER' = FALSE
  /\ MIG_FRAMES_PER_VIDEO' = 0
  /\ frame_groups' = <<>>
  /\ group_idx' = 0

\* the memory of a process that has not started record_timelapse
FreshMemory ==
  /\ env' = [k \in EnvKeys |-> UNREAD]
  /\ FreshStartup
  /\ CYCLE_TIME' = 0
  /\ VIDEO_DURATION_HOURS' = 0
  /\ KEEP_TEMP_FRAMES' = FALSE
  /\ video_start_time' = 0
  /\ frame_filename' = NoFrame
  /\ frame_files' = <<>>
  /\ frames_list' = <<>>
  /\ del_idx' = 0
  /\ batch' = {}
  /\ iter' = NoIter
  /\ removed' = {}
  /\ unlink_failed' = {}

\* The process ends with an exit status.  Its memory is gone; the model
\* keeps the accumulator, the threshold, should_stop and final_flush as the
\* record of how it ended.
ProcessEnds(code) ==
  /\ pc' = "exited"
  /\ exit_code' = code
  /\ FreshMemory

Init ==
  /\ legacy \in {S \in SUBSET LegacyUniverse : Cardinality(S) <= MaxLegacy}
  /\ AUTO_MIGRATE = FALSE
  /\ DELETE_OLD_FRAMES = FALSE
  /\ DELETE_FRAMES_AFTER = FALSE
  /\ MIG_FRAMES_PER_VIDEO = 0
  /\ frame_groups = <<>>
  /\ group_idx = 0
  /\ success_count = 0
  /\ failed_count = 0
  /\ pc = "off"
  /\ runs = 0
  /\ now = 0
  /\ env = [k \in EnvKeys |-> UNREAD]
  /\ staging = {}
  /\ artifacts = {}
  /\ should_stop = FALSE
  /\ exit_code = -1
  /\ CYCLE_TIME = 0
  /\ VIDEO_DURATION_HOURS = 0
  /\ KEEP_TEMP_FRAMES = FALSE
  /\ FRAMES_PER_VIDEO = 0
  /\ frame_count = 0
  /\ video_start_time = 0
  /\ frame_filename = NoFrame
  /\ frame_files = <<>>
  /\ frames_list = <<>>
  /\ del_idx = 0
  /\ batch = {}
  /\ iter = NoIter
  /\ removed = {}
  /\ unlink_failed = {}
  /\ final_flush = "none"

(***************************************************************************)
(* Launch of a process.  The disk and the clock are kept, the process     *)
(* state starts afresh.                                                    *)
(***************************************************************************)
Launch ==
  /\ pc \in {"off", "exited"}
  /\ runs < MaxRuns
  /\ runs' = runs + 1
  /\ pc' = "start_import"
  /\ FreshMemory
  /\ should_stop' = FALSE
  /\ exit_code' = -1
  /\ final_flush' = "none"
  /\ FRAMES_PER_VIDEO' = 0
  /\ frame_count' = 0
  /\ success_count' = 0
  /\ failed_count' = 0
  /\ UNCHANGED <<now, diskVars, legacy>>

\* start.py:22-24, executed when start.py starts
StartImport ==
  /\ pc = "start_import"
  /\ \E a \in FlagEnv, d \in FlagEnv :
       LET e == [env EXCEPT !["AUTO_MIGRATE"] = a, !["DELETE_OLD_FRAMES"] = d]
       IN  /\ env' = e
           /\ AUTO_MIGRATE' = FlagOf(e, "AUTO_MIGRATE", DefaultAutoMigrate)
           /\ DELETE_OLD_FRAMES' = FlagOf(e, "DELETE_OLD_FRAMES", DefaultDeleteOldFrames)
  /\ pc' = "start_main"
  /\ UNCHANGED <<runs, now, diskVars, endVars, CYCLE_TIME, VIDEO_DURATION_HOURS,
                 KEEP_TEMP_FRAMES, FRAMES_PER_VIDEO, frame_count, recVars, legacy,
                 DELETE_FRAMES_AFTER, MIG_FRAMES_PER_VIDEO, frame_groups, group_idx,
                 countVars>>

\* start.py:66-74 start_video_recording: app is imported next.  Nothing reads
\* the variables and the environment keys of start.py and migrate_frames.py
\* from here on: the model drops them.
HandOff ==
  /\ pc' = "app_import"
  /\ env' = [k \in EnvKeys |-> UNREAD]
  /\ FreshStartup

(***************************************************************************)
(* start.py:77-112 main: the scan, and the choice between migration (at   *)
(* once, or after the 10 s confirmation wait) and recording.              *)
(***************************************************************************)
StartMain ==
  /\ pc = "start_main"
  /\ IF AUTO_MIGRATE /\ check_for_old_frames(legacy) # {}
     THEN \E k \in FlagEnv :
            LET e == [env EXCEPT !["SKIP_MIGRATION_CONFIRM"] = k]
            IN  /\ env' = e
                /\ pc' = IF FlagOf(e, "SKIP_MIGRATION_CONFIRM", DefaultSkipConfirm)
                         THEN "run_migration" ELSE "confirm_wait"
                /\ UNCHANGED startVars
     ELSE HandOff
  /\ UNCHANGED <<runs, now, diskVars, endVars, CYCLE_TIME, VIDEO_DURATION_HOURS,
                 KEEP_TEMP_FRAMES, FRAMES_PER_VIDEO, frame_count, recVars, legacy,
                 countVars>>

\* start.py:99-103: the confirmation wait ends
ConfirmWait ==
  /\ pc = "confirm_wait"
  /\ pc' = "run_migration"
  /\ UNCHANGED <<runs, now, diskVars, endVars, cfgVars, frame_count, recVars,
                 svcVars>>

(***************************************************************************)
(* start.py:44-63 run_migration: the environment is set, migrate_frames   *)
(* is imported (migrate_frames.py:23-28) and its main runs up to the      *)
(* grouping (184-220).  An exception (the sort's TypeError) is caught by  *)
(* run_migration and recording starts.                                    *)
(***************************************************************************)
RunMigration ==
  /\ pc = "run_migration"
  /\ \E v \in MigFramesEnv :
       LET e == [env EXCEPT !["DELETE_FRAMES_AFTER"] =
                               IF DELETE_OLD_FRAMES THEN "true" ELSE "false",
                            !["FRAMES_PER_VIDEO"] = v]
           limit == IntOf[Getenv(e, "FRAMES_PER_VIDEO", DefaultMigFramesPerVideo)]
       IN  IF legacy = {} \/ SortKeyError(legacy)
           THEN HandOff
           ELSE /\ pc' = "migrating"
                /\ env' = e
                /\ DELETE_FRAMES_AFTER' =
                     FlagOf(e, "DELETE_FRAMES_AFTER", DefaultDeleteFramesAfter)
                /\ MIG_FRAMES_PER_VIDEO' = limit
                /\ \E order \in SortOrders(legacy) :
                     frame_groups' = group_frames_by_time(order, HoursPerGroup, limit)
                /\ group_idx' = 1
                /\ UNCHANGED <<AUTO_MIGRATE, DELETE_OLD_FRAMES>>
  /\ UNCHANGED <<runs, now, diskVars, endVars, CYCLE_TIME, VIDEO_DURATION_HOURS,
                 KEEP_TEMP_FRAMES, FRAMES_PER_VIDEO, frame_count, recVars, legacy,
                 countVars>>

\* a sweep that stops at the first group that fails
SweepDoneAtFailure(idx, failed) == idx = Len(frame_groups) \/ failed

\* migrate_frames.py:226: the for loop has handled every group, whatever
\* the last result
SweepDone(idx, failed) == idx = Len(frame_groups)

\* a sweep that unlinks the frames of a group whatever the assembler returned
DeletesFramesOfAnyGroup(ok) == DELETE_FRAMES_AFTER

\* migrate_frames.py:235-240: the frames of a group are unlinked after the
\* assembler has returned True, when DELETE_FRAMES_AFTER
DeletesGroupFrames(ok) == ok /\ DELETE_FRAMES_AFTER

(***************************************************************************)
(* migrate_frames.py:226-249: one group of the sweep.  The assembler      *)
(* (110-181) returns True on exit status 0, False on a nonzero status or  *)
(* an exception; after True the group's frames are unlinked when          *)
(* DELETE_FRAMES_AFTER, each unlink best effort.                          *)
(***************************************************************************)
MigrateGroup ==
  /\ pc = "migrating"
  /\ LET g == frame_groups[group_idx]
     IN  \E outcome \in {"ok", "fail", "exc"}, stay \in SUBSET Range(g.frames) :
           IF outcome = "ok"
           THEN /\ artifacts' = artifacts \cup {[kind |-> "migrated", ts |-> g.start]}
                /\ success_count' = success_count + 1
                /\ UNCHANGED failed_count
                /\ IF DeletesGroupFrames(TRUE)
                   THEN legacy' = legacy \ (Range(g.frames) \ stay)
                   ELSE stay = {} /\ legacy' = legacy
           ELSE /\ failed_count' = failed_count + 1
                /\ UNCHANGED <<artifacts, success_count>>
                /\ IF DeletesGroupFrames(FALSE)
                   THEN legacy' = legacy \ (Range(g.frames) \ stay)
                   ELSE stay = {} /\ legacy' = legacy
  /\ group_idx' = group_idx + 1
  /\ pc' = IF SweepDone(group_idx, failed_count' # failed_count)
           THEN "migrated" ELSE pc
  /\ UNCHANGED <<env, AUTO_MIGRATE, DELETE_OLD_FRAMES, DELETE_FRAMES_AFTER,
                 MIG_FRAMES_PER_VIDEO, frame_groups>>
  /\ UNCHANGED <<runs, now, staging, endVars, CYCLE_TIME, VIDEO_DURATION_HOURS,
                 KEEP_TEMP_FRAMES, FRAMES_PER_VIDEO, frame_count, recVars>>

\* migrate_frames.py:251-261 and start.py:57-58, 110-112: the sweep prints its
\* summary and returns, run_migration returns and recording starts
MigrationReturns ==
  /\ pc = "migrated"
  /\ HandOff
  /\ success_count' = 0
  /\ failed_count' = 0
  /\ UNCHANGED <<runs, now, diskVars, endVars, CYCLE_TIME, VIDEO_DURATION_HOURS,
                 KEEP_TEMP_FRAMES, FRAMES_PER_VIDEO, frame_count, recVars, legacy>>

\* where start.py runs before app.main installs the signal handlers
\* (app.py:241-242)
PreHandlerPCs == {"start_main", "confirm_wait", "run_migration", "migrating",
                  "migrated", "app_import"}

\* a confirmation wait outside any try
NoConfirmTry == FALSE

\* start.py:98-105: the confirmation wait and the migration it starts are
\* inside the try whose handler catches KeyboardInterrupt
InConfirmTry ==
  \/ pc = "confirm_wait"
  \/ /\ pc \in {"run_migration", "migrating", "migrated"}
     /\ ~FlagOf(env, "SKIP_MIGRATION_CONFIRM", DefaultSkipConfirm)

(***************************************************************************)
(* SIGINT before the handlers are installed raises KeyboardInterrupt.     *)
(* Neither the migration's assembler nor run_migration catches it (they   *)
(* catch Exception).  Inside the confirmation try it is caught            *)
(* (start.py:104-105, "Migration cancelled by user") and recording        *)
(* starts; anywhere else it reaches start.py:118-120 and the process ends *)
(* with status 0.                                                         *)
(***************************************************************************)
KeyboardInterrupt ==
  /\ pc \in PreHandlerPCs
  /\ IF InConfirmTry
     THEN /\ HandOff
          /\ success_count' = 0
          /\ failed_count' = 0
          /\ UNCHANGED <<endVars, CYCLE_TIME, VIDEO_DURATION_HOURS,
                         KEEP_TEMP_FRAMES, recVars>>
     ELSE /\ ProcessEnds(0)
          /\ UNCHANGED <<should_stop, final_flush, countVars>>
  /\ UNCHANGED <<runs, now, diskVars, FRAMES_PER_VIDEO, frame_count, legacy>>

\* SIGTERM before the handlers are installed has its default action: the
\* process is killed and its status is 128 + SIGTERM (app.py:242 is not
\* reached yet)
Killed ==
  /\ pc \in PreHandlerPCs
  /\ ProcessEnds(128 + SIGTERM)
  /\ UNCHANGED <<runs, now, diskVars, should_stop, final_flush, FRAMES_PER_VIDEO,
                 frame_count, legacy, countVars>>

(***************************************************************************)
(* app.py:26-35, executed when the module is imported.  CYCLE_TIME = 0    *)
(* raises ZeroDivisionError at line 35 and the process ends with status 1.*)
(***************************************************************************)
AppImport ==
  /\ pc = "app_import"
  /\ \E t \in TimingEnv, k \in KeepEnv :
       LET e == [env EXCEPT !["CYCLE_TIME"] = t[1],
                            !["VIDEO_DURATION_HOURS"] = t[2],
                            !["KEEP_TEMP_FRAMES"] = k]
           c == IntOf[Getenv(e, "CYCLE_TIME", DefaultCycleTime)]
           d == IntOf[Getenv(e, "VIDEO_DURATION_HOURS", DefaultDurationHours)]
       IN  IF c = 0
           THEN /\ ProcessEnds(1)
                /\ UNCHANGED FRAMES_PER_VIDEO
           ELSE /\ pc' = "app_main"
                /\ UNCHANGED startVars
                /\ env' = e
                /\ CYCLE_TIME' = c
                /\ VIDEO_DURATION_HOURS' = d
                /\ KEEP_TEMP_FRAMES' = FlagOf(e, "KEEP_TEMP_FRAMES", DefaultKeepTempFrames)
                /\ FRAMES_PER_VIDEO' = FramesPerVideoOf(d, c)
                /\ UNCHANGED <<exit_code, video_start_time, frame_filename, asmVars,
                               batch, iter>>
  /\ UNCHANGED <<runs, now, diskVars, should_stop, frame_count, final_flush,
                 legacy, countVars>>

(***************************************************************************)
(* app.py:236-267 main, up to the entry of record_timelapse (176-179).    *)
(* The statistics divide by FRAMES_PER_VIDEO (line 256): a threshold of 0 *)
(* raises ZeroDivisionError and the process ends with status 1.  No other *)
(* value of the threshold is examined.                                    *)
(***************************************************************************)
AppMain ==
  /\ pc = "app_main"
  /\ IF FRAMES_PER_VIDEO = 0
     THEN /\ ProcessEnds(1)
          /\ UNCHANGED frame_count
     ELSE /\ pc' = "loop"
          /\ frame_count' = 0
          /\ video_start_time' = now
          /\ UNCHANGED <<exit_code, env, CYCLE_TIME, VIDEO_DURATION_HOURS,
                         KEEP_TEMP_FRAMES, frame_filename, asmVars, batch, iter,
                         startVars>>
  /\ UNCHANGED <<runs, now, diskVars, should_stop, FRAMES_PER_VIDEO, final_flush,
                 legacy, countVars>>

(***************************************************************************)
(* create_video_from_frames (app.py:92-166) as called at app.py:234, in   *)
(* one step: the sorted glob, the playlist, the tool's result, and the    *)
(* best-effort cleanup (any subset of the unlinks may fail).              *)
(***************************************************************************)
FinalFlush ==
  LET files == SortedFrames(staging)
  IN  IF frame_count > 0 /\ files # <<>>
      THEN \E outcome \in {"ok", "fail", "exc"}, kept \in SUBSET staging :
             /\ final_flush' = outcome
             /\ artifacts' = IF outcome = "ok"
                             THEN artifacts \cup {[kind |-> "partial", ts |-> video_start_time]}
                             ELSE artifacts
             /\ staging' = IF outcome = "ok" /\ ~KEEP_TEMP_FRAMES THEN kept ELSE staging
      ELSE /\ final_flush' = IF frame_count > 0 THEN "empty" ELSE "none"
           /\ UNCHANGED diskVars

(***************************************************************************)
(* app.py:186-193: the loop test, the timestamp and the frame's name.     *)
(* When should_stop is set the loop is left and the final flush           *)
(* (app.py:229-234) runs, then main returns (app.py:269).                 *)
(***************************************************************************)
StartIteration ==
  /\ pc = "loop"
  /\ should_stop \/ now < MaxTime
  /\ IF ~should_stop
     THEN /\ now' = now + 1
          /\ frame_filename' = [seq |-> frame_count, ts |-> now + 1]
          /\ iter' = NoIter
          /\ pc' = "capturing"
          /\ frame_files' = <<>>
          /\ frames_list' = <<>>
          /\ del_idx' = 0
          /\ removed' = {}
          /\ unlink_failed' = {}
          /\ UNCHANGED <<diskVars, final_flush, exit_code, env, CYCLE_TIME,
                         VIDEO_DURATION_HOURS, KEEP_TEMP_FRAMES, video_start_time,
                         batch, startVars>>
     ELSE /\ FinalFlush
          /\ ProcessEnds(0)
          /\ UNCHANGED now
  /\ UNCHANGED <<runs, should_stop, FRAMES_PER_VIDEO, frame_count, legacy,
                 countVars>>

\* app.py:217-219 and 224-227: time.sleep raises ValueError on a negative
\* length, which the loop's handler turns into the 30 s backoff
AfterIteration == IF should_stop THEN "loop"
                  ELSE IF CYCLE_TIME < 0 THEN "backoff" ELSE "sleeping"

\* app.py:208-214: what the loop does with the assembler's result; it is the
\* record of the iteration
ReturnToLoop(ok, it) ==
  /\ frame_count' = IF ok THEN 0 ELSE frame_count
  /\ video_start_time' = IF ok THEN now ELSE video_start_time
  /\ batch' = IF ok THEN {} ELSE batch
  /\ iter' = it
  /\ pc' = AfterIteration

\* a threshold test that fires one frame late
ThresholdReachedLate(count) == count > FRAMES_PER_VIDEO

\* app.py:202: the threshold test
ThresholdReached(count) == count >= FRAMES_PER_VIDEO

(***************************************************************************)
(* app.py:195-212: the capture returns; on success (exit status 0) the    *)
(* file exists and the accumulator grows, on failure (nonzero exit,       *)
(* timeout, tool missing) there is no file.  Then the threshold test, and *)
(* the entry of create_video_from_frames up to the start of the tool      *)
(* (app.py:100-135).                                                       *)
(***************************************************************************)
CaptureReturns ==
  /\ pc = "capturing"
  /\ \E ok \in BOOLEAN :
       LET count == IF ok THEN frame_count + 1 ELSE frame_count
           dir == IF ok THEN staging \cup {frame_filename} ELSE staging
           files == SortedFrames(dir)
           it == [captured |-> ok,
                  reached |-> ok /\ FRAMES_PER_VIDEO >= 1 /\ count = FRAMES_PER_VIDEO,
                  assembled |-> "none"]
       IN  /\ staging' = dir
           /\ frame_count' = count
           /\ batch' = IF ok THEN batch \cup {frame_filename} ELSE batch
           /\ IF ThresholdReached(count)
              THEN IF files = <<>>
                   THEN /\ iter' = [it EXCEPT !.assembled = "empty"]
                        /\ pc' = AfterIteration
                        /\ frame_files' = files
                        /\ UNCHANGED <<frames_list, removed, unlink_failed>>
                   ELSE /\ iter' = [it EXCEPT !.assembled = "running"]
                        /\ pc' = "assembling"
                        /\ frame_files' = files
                        /\ frames_list' = PlaylistOf(files)
                        /\ removed' = {}
                        /\ unlink_failed' = {}
              ELSE /\ iter' = it
                   /\ pc' = AfterIteration
                   /\ UNCHANGED <<frame_files, frames_list, removed, unlink_failed>>
  /\ UNCHANGED <<runs, now, artifacts, endVars, cfgVars, frame_filename, del_idx,
                 video_start_time, svcVars>>

\* a cleanup that does not look at KEEP_TEMP_FRAMES
CleansUpDespiteKeep(outcome) == outcome = "ok"

\* a cleanup that does not look at the tool's exit status
CleansUpAfterFailure(outcome) == ~KEEP_TEMP_FRAMES

\* app.py:143-150: the frames are removed after exit status 0, unless
\* KEEP_TEMP_FRAMES (delete_frames is True at both calls)
CleansUp(outcome) == outcome = "ok" /\ ~KEEP_TEMP_FRAMES

(***************************************************************************)
(* app.py:135-166: the tool returns.  Exit status 0 writes the artifact   *)
(* and, unless KEEP_TEMP_FRAMES, starts the cleanup loop; a nonzero exit  *)
(* status or an exception (timeout) returns False.                        *)
(***************************************************************************)
AssemblyReturns ==
  /\ pc = "assembling"
  /\ \E outcome \in {"ok", "fail", "exc"} :
       LET it == [iter EXCEPT !.assembled = IF outcome = "ok" THEN "ok" ELSE "failed"]
       IN  /\ artifacts' = IF outcome = "ok"
                           THEN artifacts \cup {[kind |-> "full", ts |-> video_start_time]}
                           ELSE artifacts
           /\ IF CleansUp(outcome)
              THEN /\ pc' = "cleanup"
                   /\ del_idx' = 1
                   /\ iter' = it
                   /\ UNCHANGED <<frame_count, video_start_time, batch>>
              ELSE /\ ReturnToLoop(outcome = "ok", it)
                   /\ UNCHANGED del_idx
  /\ UNCHANGED <<runs, now, staging, endVars, cfgVars, frame_filename, frame_files,
                 frames_list, removed, unlink_failed, svcVars>>

\* a cleanup loop that stops before the last file
CleanupDoneEarly(idx) == idx >= Len(frame_files) - 1

\* app.py:152: the for loop has visited every file of frame_files
CleanupDone(idx) == idx = Len(frame_files)

(***************************************************************************)
(* app.py:152-158: one turn of the cleanup loop; an unlink that fails is  *)
(* logged and the file stays.  After the last file the call returns True. *)
(***************************************************************************)
Unlink ==
  /\ pc = "cleanup"
  /\ \E ok \in BOOLEAN :
       /\ staging' = IF ok THEN staging \ {frame_files[del_idx]} ELSE staging
       /\ removed' = IF ok THEN removed \cup {frame_files[del_idx]} ELSE removed
       /\ unlink_failed' = IF ok THEN unlink_failed
                           ELSE unlink_failed \cup {frame_files[del_idx]}
  /\ IF CleanupDone(del_idx)
     THEN /\ ReturnToLoop(iter.assembled = "ok", iter)
          /\ del_idx' = 0
     ELSE /\ del_idx' = del_idx + 1
          /\ UNCHANGED <<pc, frame_count, video_start_time, batch, iter>>
  /\ UNCHANGED <<runs, now, artifacts, endVars, cfgVars, frame_filename, frame_files,
                 frames_list, svcVars>>

\* app.py:219: the idle sleep ends
SleepReturns ==
  /\ pc = "sleeping"
  /\ pc' = "loop"
  /\ UNCHANGED <<runs, now, diskVars, endVars, cfgVars, frame_count,
                 video_start_time, frame_filename, asmVars, batch, iter, svcVars>>

\* a handler that drops the accumulated frames before the loop goes on
BackoffForgetsFrames ==
  /\ pc = "backoff"
  /\ pc' = "loop"
  /\ frame_count' = 0
  /\ UNCHANGED <<runs, now, diskVars, endVars, cfgVars,
                 video_start_time, frame_filename, asmVars, batch, iter, svcVars>>

\* app.py:224-227: the backoff after an exception in the loop ends
BackoffReturns ==
  /\ pc = "backoff"
  /\ pc' = "loop"
  /\ UNCHANGED <<runs, now, diskVars, endVars, cfgVars, frame_count,
                 video_start_time, frame_filename, asmVars, batch, iter, svcVars>>

\* a handler that sets should_stop and returns to the interrupted code
signal_handler_returns ==
  /\ pc \in LoopPCs
  /\ should_stop' = TRUE
  /\ UNCHANGED <<pc, runs, now, diskVars, exit_code, final_flush, cfgVars,
                 frame_count, recVars, svcVars>>

(***************************************************************************)
(* app.py:48-59: SIGINT or SIGTERM once main has installed the handler.   *)
(* The handler sets should_stop and calls sys.exit(0): SystemExit is      *)
(* raised where the main thread stands and no handler of the loop catches *)
(* it (they catch KeyboardInterrupt and Exception), so the process ends   *)
(* there with status 0.  A capture or a cleanup that is cut short leaves   *)
(* the disk as it is at that moment.                                       *)
(***************************************************************************)
signal_handler ==
  /\ pc \in LoopPCs
  /\ should_stop' = TRUE
  /\ ProcessEnds(0)
  /\ UNCHANGED <<runs, now, diskVars, FRAMES_PER_VIDEO, frame_count, final_flush,
                 legacy, countVars>>

Next ==
  \/ Launch
  \/ StartImport
  \/ StartMain
  \/ ConfirmWait
  \/ RunMigration
  \/ MigrateGroup
  \/ MigrationReturns
  \/ KeyboardInterrupt
  \/ Killed
  \/ AppImport
  \/ AppMain
  \/ StartIteration
  \/ CaptureReturns
  \/ AssemblyReturns
  \/ Unlink
  \/ SleepReturns
  \/ BackoffReturns
  \/ signal_handler

Spec == Init /\ [][Next]_vars

(***************************************************************************)
(* The threshold computation on its own (app.py:28-35): the interval and  *)
(* the duration are drawn from the positive integers up to the bounds and *)
(* the threshold is computed as the import of app.py computes it.         *)
(***************************************************************************)
InitThreshold ==
  /\ pc = "threshold"
  /\ CYCLE_TIME \in 1..MaxInterval
  /\ VIDEO_DURATION_HOURS \in 1..MaxHours
  /\ FRAMES_PER_VIDEO = 0
  /\ KEEP_TEMP_FRAMES = FALSE
  /\ legacy = {}
  /\ AUTO_MIGRATE = FALSE
  /\ DELETE_OLD_FRAMES = FALSE
  /\ DELETE_FRAMES_AFTER = FALSE
  /\ MIG_FRAMES_PER_VIDEO = 0
  /\ frame_groups = <<>>
  /\ group_idx = 0
  /\ success_count = 0
  /\ failed_count = 0
  /\ runs = 0
  /\ now = 0
  /\ env = [k \in EnvKeys |-> UNREAD]
  /\ staging = {}
  /\ artifacts = {}
  /\ should_stop = FALSE
  /\ exit_code = -1
  /\ frame_count = 0
  /\ video_start_time = 0
  /\ frame_filename = NoFrame
  /\ frame_files = <<>>
  /\ frames_list = <<>>
  /\ del_idx = 0
  /\ batch = {}
  /\ iter = NoIter
  /\ removed = {}
  /\ unlink_failed = {}
  /\ final_flush = "none"

\* app.py:35
ComputeThreshold ==
  /\ pc = "threshold"
  /\ FRAMES_PER_VIDEO' = FramesPerVideoOf(VIDEO_DURATION_HOURS, CYCLE_TIME)
  /\ pc' = "threshold_done"
  /\ UNCHANGED <<runs, now, env, diskVars, endVars, CYCLE_TIME, VIDEO_DURATION_HOURS,
                 KEEP_TEMP_FRAMES, frame_count, recVars, svcVars>>

NextThreshold == ComputeThreshold

SpecThreshold == InitThreshold /\ [][NextThreshold]_vars

(***************************************************************************)
(* Properties of the recording loop.                                       *)
(***************************************************************************)
\* the loop is past the capture and the flush of its iteration
AfterFlushPCs == {"sleeping", "backoff", "loop"}

C2_FinalFlushOnSignal ==
  (pc = "exited" /\ should_stop /\ frame_count > 0) => final_flush # "none"

\* C3, as stated: a run shut down with k accumulated frames, 0 < k < T, has
\* produced exactly one partial artifact; a run shut down with k = 0 has
\* produced none.
C3_OnePartialArtifact ==
  (pc = "exited" /\ should_stop) =>
     /\ (0 < frame_count /\ frame_count < FRAMES_PER_VIDEO) =>
           (final_flush = "ok" /\ \E a \in artifacts : a.kind = "partial")
     /\ frame_count = 0 => final_flush = "none"

\* C4, as stated: the frames the assembler puts in the playlist of a flush
\* are the frames captured since the previous successful flush, as many as
\* the accumulator counts (threshold T >= 1).
C4_PlaylistIsBatch ==
  (pc = "assembling" /\ FRAMES_PER_VIDEO >= 1) =>
     (Len(frame_files) = frame_count /\ Range(frame_files) = batch)

\* C5: a failed assembly leaves the input frames on disk as they were when
\* it was invoked.  Recording: once the failed call has returned, the staging
\* directory holds exactly the files the call listed.  Migration: the step
\* of a failed group changes neither directory.
C5_FailedAssemblyKeepsFrames ==
  /\ []((pc \in AfterFlushPCs /\ iter.assembled = "failed") =>
          staging = Range(frame_files))
  /\ [][(pc = "migrating" /\ failed_count' = failed_count + 1) =>
          (legacy' = legacy /\ staging' = staging)]_vars

C5_Witness ==
  /\ pc = "migrated"
  /\ failed_count = 1
  /\ legacy # {}
  /\ DELETE_FRAMES_AFTER

\* C6, as stated: once a successful assembly with deletion enabled has
\* returned, exactly the frames of its playlist have been removed.
C6_RemovesWholePlaylist ==
  (pc \in AfterFlushPCs /\ iter.assembled = "ok" /\ ~KEEP_TEMP_FRAMES) =>
     (removed = Range(frame_files) /\ staging \cap Range(frame_files) = {})

\* C6, amended: once a successful assembly with deletion enabled has
\* returned, every frame of its playlist has been removed except those whose
\* unlink raised, which are still in the staging directory; and no step
\* removes a staging file other than a cleanup step removing a frame of the
\* playlist of the flush under way.
C6_RemovesPlaylistBestEffort ==
  /\ []((pc \in AfterFlushPCs /\ iter.assembled = "ok" /\ ~KEEP_TEMP_FRAMES) =>
          /\ removed \cup unlink_failed = Range(frame_files)
          /\ removed \cap unlink_failed = {}
          /\ staging = unlink_failed)
  /\ [][\A f \in staging \ staging' :
          pc = "cleanup" /\ f \in Range(frame_files)]_vars

C6_Witness ==
  /\ pc = "sleeping"
  /\ iter.assembled = "ok"
  /\ ~KEEP_TEMP_FRAMES
  /\ Cardinality(removed) = 2
  /\ staging = {}

\* no configuration key is set in the environment of the process
\* (DELETE_FRAMES_AFTER is written by start.py itself)
AllDefaults ==
  \A k \in EnvKeys \ {"DELETE_FRAMES_AFTER"} : env[k] \in {UNSET, UNREAD}

\* C7, as stated: when no configuration key is set, no step deletes a frame
\* of the staging directory or of the legacy directory.
C7_NoDeletionByDefault ==
  [][AllDefaults => (staging \subseteq staging' /\ legacy \subseteq legacy')]_vars

\* C7, amended: a step deletes a staging frame only if KEEP_TEMP_FRAMES is
\* not 'true' (its default is 'false'), and a legacy frame only if
\* DELETE_OLD_FRAMES is 'true' (its default), which start.py hands to the
\* migration as DELETE_FRAMES_AFTER.
C7_DeletionFollowsFlags ==
  [][/\ ~(staging \subseteq staging') =>
          Lower(Getenv(env, "KEEP_TEMP_FRAMES", DefaultKeepTempFrames)) # "true"
     /\ ~(legacy \subseteq legacy') =>
          /\ Lower(Getenv(env, "DELETE_OLD_FRAMES", DefaultDeleteOldFrames)) = "true"
          /\ env["DELETE_FRAMES_AFTER"] = "true"]_vars

C7_Witness ==
  /\ pc = "migrated"
  /\ success_count = 1
  /\ legacy = {}
  /\ \A k \in StartKeys \cup {"FRAMES_PER_VIDEO"} : env[k] = UNSET

\* C8, as stated: the playlist has one file entry per listed frame plus the
\* last frame once more, and its frames stand in the order of their capture.
C8_PlaylistInCaptureOrder ==
  pc = "assembling" =>
     LET n == Len(frame_files)
     IN  /\ Len(frames_list) = 2 * n + 1
         /\ frames_list[2 * n + 1] = frames_list[2 * n - 1]
         /\ \A i, j \in 1..n :
              i < j => frames_list[2 * i - 1].frame.ts < frames_list[2 * j - 1].frame.ts

\* C9, as stated: the recording loop is entered only with a threshold >= 1.
C9_LoopNeedsPositiveThreshold ==
  pc \in LoopPCs => FRAMES_PER_VIDEO >= 1

C11_FailedCaptureIsInert ==
  (~iter.captured /\ FRAMES_PER_VIDEO >= 1) => iter.assembled # "ok"

\* C12, as stated: after a failed assembly the assembler is not invoked again
\* before a full new threshold of frames has been captured, i.e. it is
\* invoked only in an iteration whose successful capture completed a whole
\* multiple of the threshold T >= 1.
C12_NoRetryOfFailedBatch ==
  (pc = "assembling" /\ FRAMES_PER_VIDEO >= 1) =>
     (iter.captured /\ frame_count % FRAMES_PER_VIDEO = 0)

\* C13: once should_stop is set no capture is started in that process: no
\* state has a capture under way in a process whose should_stop is set.
C13_NoCaptureAfterStop ==
  should_stop => pc # "capturing"

C13_Witness ==
  /\ should_stop
  /\ pc = "exited"
  /\ exit_code = 0
  /\ frame_count = 1
  /\ runs = 1

(***************************************************************************)
(* The service's start-up on its own: start.py up to the entry of the     *)
(* recording loop.  The steps of the program are fair: the confirmation   *)
(* wait is a sleep of 10 s and every call of the external tool has a      *)
(* timeout, so each step ends.                                             *)
(***************************************************************************)
StartPCs == {"start_import", "start_main", "confirm_wait"}
MigratePCs == {"run_migration", "migrating", "migrated"}
RecordingPCs == {"app_import", "app_main"} \cup LoopPCs

StartupStep ==
  \/ StartImport
  \/ StartMain
  \/ ConfirmWait
  \/ RunMigration
  \/ MigrateGroup
  \/ MigrationReturns

NextStart ==
  \/ Launch
  \/ StartupStep
  \/ KeyboardInterrupt
  \/ Killed
  \/ AppImport
  \/ AppMain
  \/ signal_handler

SpecStart == Init /\ [][NextStart]_vars /\ WF_vars(StartupStep)

\* C14, as stated: start_video_recording, once entered, starts app.main:
\* the import of app is followed by app.main and never by the end of the
\* process with the status of a fatal error.
C14_RecordingAlwaysStarts ==
  [][(pc = "app_import" /\ pc' = "exited") => exit_code' # 1]_vars

\* C14, amended: Migrate is entered only with AUTO_MIGRATE set and legacy
\* frames found by the scan; the start-up phase ends only by entering
\* Recording (start_video_recording) or by a termination request, and a
\* KeyboardInterrupt in the confirmation wait enters Recording; Recording is
\* entered from the start-up phase only and is never left for Migrate or
\* the scan; and every run that reaches start.main eventually enters
\* Recording or is terminated.
C14_ServiceStateMachine ==
  /\ [](pc \in MigratePCs \cup {"confirm_wait"} => AUTO_MIGRATE)
  /\ [](pc \in {"confirm_wait", "run_migration"} => legacy # {})
  /\ [][(pc \in StartPCs \cup MigratePCs /\ pc' = "exited") =>
          /\ exit_code' \in {0, 128 + SIGTERM}
          /\ pc = "confirm_wait" => exit_code' # 0]_vars
  /\ [][pc' = "app_import" => pc \in StartPCs \cup MigratePCs]_vars
  /\ [][(pc \in RecordingPCs) => (pc' \in RecordingPCs \/ pc' = "exited")]_vars
  /\ (pc = "start_main") ~> (pc \in {"app_import", "exited"})

C14_Witness ==
  /\ pc = "app_main"
  /\ runs = 1
  /\ legacy # {}
  /\ \E a \in artifacts : a.kind = "migrated"

(***************************************************************************)
(* The migration sweep on its own: start.main has found legacy frames and *)
(* calls run_migration (start.py:88-97).  The legacy directory holds up   *)
(* to MaxSweepFiles files: with timestamps 60 s apart, equal, and 24 h    *)
(* apart, and without a timestamp, with distinct and equal modification   *)
(* times.                                                                  *)
(***************************************************************************)
SweepUniverse ==
  { [name |-> "screenshot_t0.png", prefix |-> "screenshot", ts |-> 0, mtime |-> 5],
    [name |-> "screenshot_t60.png", prefix |-> "screenshot", ts |-> 60, mtime |-> 5],
    [name |-> "frame_t60.jpg", prefix |-> "frame", ts |-> 60, mtime |-> 5],
    [name |-> "screenshot_t120.png", prefix |-> "screenshot", ts |-> 120, mtime |-> 5],
    [name |-> "frame_t86400.jpg", prefix |-> "frame", ts |-> 86400, mtime |-> 5],
    [name |-> "screenshot_m10.png", prefix |-> "screenshot", ts |-> NoTs, mtime |-> 10],
    [name |-> "screenshot_m20.png", prefix |-> "screenshot", ts |-> NoTs, mtime |-> 20],
    [name |-> "frame_m20.jpg", prefix |-> "frame", ts |-> NoTs, mtime |-> 20] }

InitSweep ==
  /\ legacy \in {S \in SUBSET SweepUniverse : S # {} /\ Cardinality(S) <= MaxSweepFiles}
  /\ pc = "run_migration"
  /\ runs = 1
  /\ AUTO_MIGRATE = TRUE
  /\ DELETE_OLD_FRAMES \in BOOLEAN
  /\ DELETE_FRAMES_AFTER = FALSE
  /\ MIG_FRAMES_PER_VIDEO = 0
  /\ frame_groups = <<>>
  /\ group_idx = 0
  /\ success_count = 0
  /\ failed_count = 0
  /\ now = 0
  /\ env = [k \in EnvKeys |-> UNREAD]
  /\ staging = {}
  /\ artifacts = {}
  /\ should_stop = FALSE
  /\ exit_code = -1
  /\ CYCLE_TIME = 0
  /\ VIDEO_DURATION_HOURS = 0
  /\ KEEP_TEMP_FRAMES = FALSE
  /\ FRAMES_PER_VIDEO = 0
  /\ frame_count = 0
  /\ video_start_time = 0
  /\ frame_filename = NoFrame
  /\ frame_files = <<>>
  /\ frames_list = <<>>
  /\ del_idx = 0
  /\ batch = {}
  /\ iter = NoIter
  /\ removed = {}
  /\ unlink_failed = {}
  /\ final_flush = "none"

NextSweep ==
  \/ RunMigration
  \/ MigrateGroup
  \/ MigrationReturns

SpecSweep == InitSweep /\ [][NextSweep]_vars

\* C15: every group is handed to the assembler once, in order, whatever the
\* results before it: while the sweep runs, the groups 1..group_idx-1 have
\* been handled and each has counted as a success or as a failure; when it
\* ends, success_count + failed_count is the number of groups.
C15_SweepHandlesEveryGroup ==
  /\ pc = "migrating" =>
        /\ group_idx \in 1..Len(frame_groups)
        /\ success_count + failed_count = group_idx - 1
  /\ pc = "migrated" =>
        /\ group_idx = Len(frame_groups) + 1
        /\ success_count + failed_count = Len(frame_groups)

C15_Witness ==
  /\ pc = "migrated"
  /\ Len(frame_groups) = 3
  /\ failed_count = 1
  /\ success_count = 2
  /\ artifacts = {[kind |-> "migrated", ts |-> frame_groups[i].start] : i \in {2, 3}}
  /\ Cardinality(artifacts) = 2


SweepPCs == {"migrating", "migrated"}

\* the frames of the groups of the sweep
GroupedFrames == UNION {Range(frame_groups[i].frames) : i \in 1..Len(frame_groups)}

\* a sweep over frames that all carry a timestamp
TimestampedSweep ==
  /\ pc \in SweepPCs
  /\ \A f \in GroupedFrames : get_frame_timestamp(f) # NoTs

\* a group starts at the timestamp of its first frame, holds at most
\* FRAMES_PER_VIDEO frames, each less than hours_per_group after the first,
\* and was closed by a frame that came hours_per_group or more after its
\* first frame or found it holding FRAMES_PER_VIDEO frames
TimeAndCountGroups ==
  \A i \in 1..Len(frame_groups) :
    LET g == frame_groups[i]
    IN  /\ Len(g.frames) \in 1..MIG_FRAMES_PER_VIDEO
        /\ g.start = get_frame_timestamp(g.frames[1])
        /\ \A k \in 1..Len(g.frames) :
             /\ get_frame_timestamp(g.frames[k]) >= g.start
             /\ get_frame_timestamp(g.frames[k]) - g.start
                  < HoursPerGroup * SecondsPerHour
        /\ i < Len(frame_groups) =>
             \/ get_frame_timestamp(frame_groups[i + 1].frames[1]) - g.start
                  >= HoursPerGroup * SecondsPerHour
             \/ Len(g.frames) = MIG_FRAMES_PER_VIDEO

C17_GroupingNeverFails ==
  [][(pc = "run_migration" /\ legacy # {}) =>
       /\ pc' = "migrating"
       /\ UNION {Range(frame_groups'[i].frames) : i \in 1..Len(frame_groups')} = legacy
       /\ (\A f \in legacy : get_frame_timestamp(f) = NoTs /\ MIG_FRAMES_PER_VIDEO' >= 1) =>
            \A i \in 1..Len(frame_groups') :
              LET g == frame_groups'[i]
              IN  /\ g.start = g.frames[1].mtime
                  /\ \A k \in 1..(Len(g.frames) - 1) :
                       g.frames[k].mtime <= g.frames[k + 1].mtime
                  /\ i < Len(frame_groups') =>
                       /\ Len(g.frames) = MIG_FRAMES_PER_VIDEO'
                       /\ g.frames[Len(g.frames)].mtime <= frame_groups'[i + 1].start]_vars


\* the artifact the assembler is about to write
BatchArtifact == [kind |-> "full", ts |-> video_start_time]
GroupArtifact == [kind |-> "migrated", ts |-> frame_groups[group_idx].start]

\* the recording loop never hands the assembler a path that holds an
\* artifact already
RecordingPathsAreFresh == pc = "assembling" => BatchArtifact \notin artifacts

\* C18: no artifact is overwritten: the path a batch of the recording loop
\* or a group of a migration sweep is assembled to holds no artifact yet.
C18_NoArtifactOverwritten ==
  /\ RecordingPathsAreFresh
  /\ pc = "migrating" => GroupArtifact \notin artifacts


\* C19: the service ends with exit code 0 (shutdown on a termination
\* signal, during migration or recording) or 1 (start-up error), and in no
\* other way.
C19_ExitCodeIsZeroOrOne == pc = "exited" => exit_code \in {0, 1}


\* C20: an exception in an iteration of the recording loop leads to the
\* backoff wait and from there to the next iteration with the accumulator as
\* the iteration left it; the loop is left only by a shutdown request, with
\* exit code 0.
C20_LoopSurvivesExceptions ==
  [][/\ (pc = "backoff" /\ pc' # "backoff") =>
          \/ pc' = "loop" /\ frame_count' = frame_count /\ batch' = batch
          \/ pc' = "exited" /\ should_stop'
     /\ (pc \in LoopPCs /\ pc' \notin LoopPCs) =>
          /\ pc' = "exited"
          /\ should_stop'
          /\ exit_code' = 0]_vars

\* the iteration after one that ended in the handler, a frame accumulated
C20_Witness ==
  /\ CYCLE_TIME < 0
  /\ pc = "capturing"
  /\ ~should_stop
  /\ frame_count = 1
  /\ now >= 2


\* the frames of the first n groups, one group after the other
RECURSIVE FramesOfGroups(_, _)
FramesOfGroups(groups, n) ==
  IF n = 0 THEN <<>> ELSE FramesOfGroups(groups, n - 1) \o groups[n].frames

\* C21: grouping partitions its input, whatever the legacy frames: no group
\* is empty and the groups, one after the other, are the frames in the
\* order of the sort, each frame once.
C21_GroupsPartitionInput ==
  [][(pc = "run_migration" /\ legacy # {}) =>
       /\ pc' = "migrating"
       /\ \A i \in 1..Len(frame_groups') : frame_groups'[i].frames # <<>>
       /\ FramesOfGroups(frame_groups', Len(frame_groups')) \in SortOrders(legacy)]_vars


\* C22: in the sweep a legacy frame disappears only in the step that has
\* assembled its group with success, and only when DELETE_FRAMES_AFTER; the
\* frames of the groups not yet handled are all there, and so is every
\* grouped frame when DELETE_FRAMES_AFTER is not set.
C22_DeletesOnlyAssembledFrames ==
  /\ [][legacy' # legacy =>
          /\ pc = "migrating"
          /\ DELETE_FRAMES_AFTER
          /\ success_count' = success_count + 1
          /\ failed_count' = failed_count
          /\ legacy' \subseteq legacy
          /\ legacy \ legacy' \subseteq Range(frame_groups[group_idx].frames)]_vars
  /\ [](pc \in SweepPCs =>
          /\ \A i \in group_idx..Len(frame_groups) :
               Range(frame_groups[i].frames) \subseteq legacy
          /\ ~DELETE_FRAMES_AFTER => GroupedFrames \subseteq legacy
          /\ success_count = 0 => GroupedFrames \subseteq legacy)

\* a sweep of two groups with deletion on: the first failed and keeps its
\* frames, the second succeeded and its frames are gone
C22_Witness ==
  /\ pc = "migrated"
  /\ DELETE_FRAMES_AFTER
  /\ Len(frame_groups) = 2
  /\ failed_count = 1
  /\ artifacts = {[kind |-> "migrated", ts |-> frame_groups[2].start]}
  /\ frame_groups[1].start # frame_groups[2].start
  /\ legacy = Range(frame_groups[1].frames)

=============================================================================
